---- MODULE Spec2Model ----
(***************************************************************************)
(* A model of the Discord automation bot of src/main.py: the schedule      *)
(* calculator (seconds_until_next_run, the monthly target), the report     *)
(* windows (weekly_period, monthly_period), the history aggregator         *)
(* (collect_counts_for_period) and the automation loop (on_ready, the      *)
(* three scheduler tasks, the reports).                                    *)
(*                                                                         *)
(* Time.  A date is a day number counted from 1 January of MinYear.  A     *)
(* datetime is an instant: a number of ticks counted from 00:00:00 of that *)
(* day, TicksPerSecond ticks to the second (Python's datetime carries      *)
(* microseconds; the model keeps a sub-second resolution so that instants  *)
(* strictly between two whole seconds exist).  Two aware datetimes that    *)
(* share one tzinfo object are compared and subtracted on their wall-clock *)
(* fields, which is what the integer instants do.                          *)
(***************************************************************************)
EXTENDS Integers, Sequences, FiniteSets, TLC

VARIABLES
    \* -- the schedule calculator and the report windows, called on their own
    call_fn,          \* which function has been called ("input": none yet)
    call_now,         \* datetime.now(timezone): the instant the call reads
    call_target,      \* the configured HH:MM time the call is given
    call_weekday,     \* the weekday argument (NoWeekday: None)
    call_reason,      \* the reason argument of weekly_period / monthly_period
    call_candidate,   \* the local `candidate` of the call
    call_wait,        \* the returned wait, in ticks
    call_period       \* the returned window <<start_date, end_date, label>>

VARIABLES
    \* -- one run of collect_counts_for_period
    user_ids,            \* config.user_ids, the tracked users in configured order
    one_update_per_day,  \* config.one_update_per_day
    utc_offset,          \* the configured timezone, as its offset from UTC in ticks
    reminder_command,    \* config.manual_reminder_command
    period_start,        \* the window's first day (start_date)
    period_end,          \* the window's last day (end_date)
    agg_pc,              \* "idle", "scanning" (inside the async for) or "returned"
    counts,              \* the local counts
    active_days,         \* the local active_days
    seen_daily,          \* the local seen_daily
    msg,                 \* the channel message the history query passed over last
    yielded,             \* whether the history query yielded it to the loop
    scanned,             \* how many channel messages the query has passed over
    posted,              \* <<uid, local day>> of the qualifying in-window messages passed over
    qualified            \* how many qualifying in-window messages have been passed over

VARIABLES
    \* -- the running bot
    clock,           \* the wall clock of the configured zone
    tasks_started,   \* DiscordAutomationBot.tasks_started
    ready_signals,   \* how many times on_ready has run
    created,         \* per scheduler, how many tasks asyncio.create_task has made of it
    proc,            \* per coroutine (scheduler task or on_message call): where it stands
    inbound,         \* how many inbound messages on_message has been called for
    sent             \* per coroutine, what its channel.send calls have delivered, in order

VARIABLES
    \* -- one call of build_period_report on what the aggregation returned
    rank_report,          \* config.rank_report
    include_missed_days,  \* config.include_missed_days
    rows,                 \* the local rows, one list of cells per table row
    total_updates         \* the local total_updates

VARIABLES
    \* -- two report runs scanning one channel at the same time
    stream,          \* the messages channel.history yields, in order
    runs             \* per run: its position in the stream, its locals, its sends

VARIABLES
    inbox,           \* per on_message slot, the message of its last call
    fetch_failed     \* per coroutine, how many times it logged "Failed to fetch channel"

calcVars == <<call_fn, call_now, call_target, call_weekday, call_reason,
              call_candidate, call_wait, call_period>>
aggVars == <<user_ids, one_update_per_day, utc_offset, reminder_command, period_start,
             period_end, agg_pc, counts, active_days, seen_daily, msg, yielded, scanned,
             posted, qualified>>
reportVars == <<rank_report, include_missed_days, rows, total_updates>>
concVars == <<stream, runs>>
botVars == <<clock, tasks_started, ready_signals, created, proc, inbound, sent, inbox,
            fetch_failed>>
vars == <<calcVars, aggVars, reportVars, concVars, botVars>>

\* ------------------------------------------------------------------ bounds
\* The last calendar year from which "now" is drawn, and how many years.
MaxYear == 2024
YearSpan == 2
\* Sub-second resolution of an instant.
TicksPerSecond == 2
\* The longest report window scanned, as end_date - start_date.
MaxWindowSpan == 1
\* How many channel messages one history query passes over.
MaxScan == 2
\* How many "ready" signals the connection delivers.
MaxReady == 2
\* How many inbound chat messages on_message is called for.
MaxInbound == 1
\* How many hours the bot is followed for.
MaxRunHours == 9
\* How many hours the scheduler tasks alone are followed for.
MaxCycleHours == 33

MinYear == MaxYear - YearSpan + 1

\* ---------------------------------------------------------------- calendar
TicksPerMinute == 60 * TicksPerSecond
TicksPerHour == 60 * TicksPerMinute
TicksPerDay == 24 * TicksPerHour

Max(a, b) == IF a >= b THEN a ELSE b

IsLeap(y) == (y % 4 = 0) /\ ((y % 100 # 0) \/ (y % 400 = 0))

DaysInMonth(y, m) ==
    IF m = 2 THEN (IF IsLeap(y) THEN 29 ELSE 28)
    ELSE IF m \in {4, 6, 9, 11} THEN 30 ELSE 31

DaysInYear(y) == IF IsLeap(y) THEN 366 ELSE 365

\* Days of the proleptic Gregorian calendar before 1 January of year y.
DaysBeforeYear(y) == (y - 1) * 365 + ((y - 1) \div 4) - ((y - 1) \div 100) + ((y - 1) \div 400)

RECURSIVE DaysBeforeMonth(_, _)
DaysBeforeMonth(y, m) == IF m = 1 THEN 0 ELSE DaysBeforeMonth(y, m - 1) + DaysInMonth(y, m - 1)

\* date(y, m, d) as a day number; day 0 is 1 January of MinYear.
MkDate(y, m, d) == (DaysBeforeYear(y) - DaysBeforeYear(MinYear)) + DaysBeforeMonth(y, m) + (d - 1)

\* The calendar years a date of the model can fall in.
Years == (MinYear - 1) .. (MaxYear + 2)

YearOf(dt) == CHOOSE y \in Years : MkDate(y, 1, 1) <= dt /\ dt < MkDate(y + 1, 1, 1)
MonthOf(dt) ==
    LET y == YearOf(dt)
    IN  CHOOSE m \in 1..12 : MkDate(y, m, 1) <= dt /\ dt < MkDate(y, m, 1) + DaysInMonth(y, m)
DayOf(dt) == dt - MkDate(YearOf(dt), MonthOf(dt), 1) + 1

\* date.weekday(): Monday is 0 and Sunday is 6; day 1 of year 1 is a Monday.
PyWeekday(dt) == (DaysBeforeYear(MinYear) + dt) % 7

\* date.replace(day=n)
ReplaceDay(dt, n) == MkDate(YearOf(dt), MonthOf(dt), n)

\* datetime.date(), datetime.time(), datetime.combine(date, time)
DateOf(t) == t \div TicksPerDay
TimeOf(t) == t % TicksPerDay
Combine(dt, tm) == dt * TicksPerDay + tm

\* time(hour=h, minute=m)
HHMM(h, m) == h * TicksPerHour + m * TicksPerMinute

\* ------------------------------------------------------- schedule calculator
\* weekday=None of seconds_until_next_run
NoWeekday == -1

\* timedelta(days=n)
Days(n) == n * TicksPerDay

\* Mutant: the daily branch rolls over only when the candidate is strictly past.
next_run_candidate_strict(target_time, now, weekday) ==
    IF weekday = NoWeekday
    THEN LET candidate == Combine(DateOf(now), target_time)
         IN  IF candidate < now THEN candidate + Days(1) ELSE candidate
    ELSE LET days_ahead == (weekday - PyWeekday(DateOf(now))) % 7
             candidate == Combine(DateOf(now) + days_ahead, target_time)
         IN  IF candidate <= now THEN candidate + Days(7) ELSE candidate

\* Mutant: the weekly branch rolls a passed candidate over by one day, not seven.
next_run_candidate_one_day(target_time, now, weekday) ==
    LET days_ahead == IF weekday = NoWeekday THEN 0 ELSE (weekday - PyWeekday(DateOf(now))) % 7
        candidate == Combine(DateOf(now) + days_ahead, target_time)
    IN  IF candidate <= now THEN candidate + Days(1) ELSE candidate

\* The candidate instant of seconds_until_next_run, `now` being datetime.now(tz).
next_run_candidate(target_time, now, weekday) ==
    IF weekday = NoWeekday
    THEN LET candidate == Combine(DateOf(now), target_time)
         IN  IF candidate <= now THEN candidate + Days(1) ELSE candidate
    ELSE LET days_ahead == (weekday - PyWeekday(DateOf(now))) % 7
             candidate_date == DateOf(now) + days_ahead
             candidate == Combine(candidate_date, target_time)
         IN  IF candidate <= now THEN candidate + Days(7) ELSE candidate

\* seconds_until_next_run, in ticks: max((candidate - now).total_seconds(), 1.0)
seconds_until_next_run(target_time, now, weekday) ==
    Max(next_run_candidate(target_time, now, weekday) - now, TicksPerSecond)

\* Mutant: three days are added to day 28, which stays inside a 31-day month.
first_of_next_month_plus3(now) ==
    LET day28 == Combine(ReplaceDay(DateOf(now), 28), TimeOf(now))
        rolled == day28 + Days(3)
    IN  Combine(ReplaceDay(DateOf(rolled), 1), TimeOf(rolled))

\* monthly_scheduler: (now.replace(day=28) + timedelta(days=4)).replace(day=1)
first_of_next_month(now) ==
    LET day28 == Combine(ReplaceDay(DateOf(now), 28), TimeOf(now))
        rolled == day28 + Days(4)
    IN  Combine(ReplaceDay(DateOf(rolled), 1), TimeOf(rolled))

\* monthly_scheduler: the candidate instant and the wait, in ticks
monthly_candidate(monthly_report_time, now) ==
    Combine(DateOf(first_of_next_month(now)), monthly_report_time)

monthly_wait_seconds(monthly_report_time, now) ==
    Max(monthly_candidate(monthly_report_time, now) - now, TicksPerSecond)

\* ------------------------------------------------------------ report windows
\* Mutant: the week is taken to start on Monday (weekday() itself is the distance).
weekly_period_monday(now, reason) ==
    LET today == DateOf(now)
    IN  <<today - PyWeekday(today), today>>

\* weekly_period(now, reason): <<start_date, end_date>>
weekly_period(now, reason) ==
    LET today == DateOf(now)
        days_since_sunday == (PyWeekday(today) + 1) % 7
        start_date == today - days_since_sunday
        end_date == today
    IN  <<start_date, end_date>>

\* Mutant: the previous month is taken to be 30 days long.
monthly_period_30(now, reason) ==
    LET today == DateOf(now)
    IN  IF reason = "manual"
        THEN <<ReplaceDay(today, 1), today, "Month-to-date">>
        ELSE LET end_date == ReplaceDay(today, 1) - 1
             IN  <<end_date - 29, end_date, "Previous calendar month">>

\* Mutant: the scheduled window ends on day 1 of this month, not the day before.
monthly_period_overlap(now, reason) ==
    LET today == DateOf(now)
    IN  IF reason = "manual"
        THEN <<ReplaceDay(today, 1), today, "Month-to-date">>
        ELSE LET end_date == ReplaceDay(today, 1)
             IN  <<ReplaceDay(end_date - 1, 1), end_date, "Previous calendar month">>

\* Mutant: the reason is not looked at; every window is month-to-date.
monthly_period_to_date(now, reason) ==
    LET today == DateOf(now)
    IN  <<ReplaceDay(today, 1), today, "Month-to-date">>

\* monthly_period(now, reason): <<start_date, end_date, label>>
monthly_period(now, reason) ==
    LET today == DateOf(now)
    IN  IF reason = "manual"
        THEN <<ReplaceDay(today, 1), today, "Month-to-date">>
        ELSE LET first_of_this_month == ReplaceDay(today, 1)
                 end_date == first_of_this_month - 1
                 start_date == ReplaceDay(end_date, 1)
             IN  <<start_date, end_date, "Previous calendar month">>

\* -------------------------------------------------------- history aggregator
\* A message text is a sequence of tokens: " " is white space, "!" punctuation,
\* every other token a run of word characters in the given letter case.
\* str.lower() on one token.
LowerToken(tok) ==
    CASE tok = "Update" -> "update"
      [] tok = "Updates" -> "updates"
      [] tok = "Daily" -> "daily"
      [] tok = "Weekly_Report" -> "weekly_report"
      [] tok = "Monthly_Report" -> "monthly_report"
      [] OTHER -> tok

\* str.lower()
Lower(text) == [i \in 1..Len(text) |-> LowerToken(text[i])]

\* str.strip(): leading and trailing white space removed
RECURSIVE LStrip(_)
LStrip(text) == IF text # <<>> /\ Head(text) = " " THEN LStrip(Tail(text)) ELSE text
RECURSIVE RStrip(_)
RStrip(text) ==
    IF text # <<>> /\ text[Len(text)] = " " THEN RStrip(SubSeq(text, 1, Len(text) - 1)) ELSE text
Strip(text) == RStrip(LStrip(text))

\* content.strip().lower()
Normalize(text) == Lower(Strip(text))

\* The words the default UPDATE_MESSAGE_PATTERN \b(daily\W*updates?|updates?)\b finds.
UpdateWords == {"update", "updates"}

\* is_update_message: update_message_regex.search(content), compiled with re.IGNORECASE
is_update_message(content) == \E i \in 1..Len(content) : LowerToken(content[i]) \in UpdateWords

\* The configured command strings, as load_config reads them.
weekly_report_command == <<"!", "weekly_report">>
monthly_report_command == <<"!", "monthly_report">>

\* __init__: the commands, stripped and lower-cased once
manual_weekly_command == Normalize(weekly_report_command)
manual_monthly_command == Normalize(monthly_report_command)
manual_reminder_command(command) == Normalize(command)

\* The set of the elements of a list.
Range(f) == {f[i] : i \in DOMAIN f}

\* created_at.astimezone(config.timezone): the wall-clock instant in the zone
AsTimezone(created_at, offset) == created_at + offset

\* An aware datetime built in the configured zone, as the UTC instant it denotes.
ToUtc(wall, offset) == wall - offset

\* time.min and time.max
TimeMin == 0
TimeMax == TicksPerDay - 1

\* collect_counts_for_period: start_time and end_time
start_time(start, offset) == ToUtc(Combine(start, TimeMin), offset)
end_time(end, offset) == ToUtc(Combine(end, TimeMax), offset)

\* Mutant: the query starts at start_time itself, not one second before it.
history_after_start(start, offset) == start_time(start, offset)

\* collect_counts_for_period: the after= and before= of the history query
history_after(start, offset) == start_time(start, offset) - TicksPerSecond
history_before(end, offset) == end_time(end, offset) + TicksPerSecond

\* channel.history(after=..., before=...): whether the query yields message m
HistoryYields(m, after, before) == m.created_at > after /\ m.created_at < before

\* Mutant: the command comparisons are made on the raw text, not the normalized one.
LoopBody_raw_command(m, c, a, seen, start, end, offset, dedup, reminder) ==
    LET uid == m.author
        local_day == DateOf(AsTimezone(m.created_at, offset))
        key == <<uid, local_day>>
    IN  IF m.bot THEN <<c, a, seen>>
        ELSE IF m.content \in {manual_weekly_command, manual_monthly_command,
                               manual_reminder_command(reminder)} THEN <<c, a, seen>>
        ELSE IF ~is_update_message(m.content) THEN <<c, a, seen>>
        ELSE IF uid \notin DOMAIN c THEN <<c, a, seen>>
        ELSE IF local_day < start \/ local_day > end THEN <<c, a, seen>>
        ELSE IF dedup /\ key \in seen THEN <<c, a, seen>>
        ELSE <<[c EXCEPT ![uid] = @ + 1],
               [a EXCEPT ![uid] = @ \cup {local_day}],
               IF dedup THEN seen \cup {key} ELSE seen>>

\* Mutant: the per-day key is recorded but a repeated key is counted all the same.
LoopBody_no_dedup(m, c, a, seen, start, end, offset, dedup, reminder) ==
    LET uid == m.author
        local_day == DateOf(AsTimezone(m.created_at, offset))
    IN  IF m.bot THEN <<c, a, seen>>
        ELSE IF Normalize(m.content) \in {manual_weekly_command, manual_monthly_command,
                               manual_reminder_command(reminder)} THEN <<c, a, seen>>
        ELSE IF ~is_update_message(m.content) THEN <<c, a, seen>>
        ELSE IF uid \notin DOMAIN c THEN <<c, a, seen>>
        ELSE IF local_day < start \/ local_day > end THEN <<c, a, seen>>
        ELSE <<[c EXCEPT ![uid] = @ + 1],
               [a EXCEPT ![uid] = @ \cup {local_day}],
               IF dedup THEN seen \cup {<<uid, local_day>>} ELSE seen>>

\* Mutant: the author is not looked up in counts, and counts and active_days
\* grow a key for whoever wrote the message.
LoopBody_untracked_counted(m, c, a, seen, start, end, offset, dedup, reminder) ==
    LET normalized_content == Normalize(m.content)
        uid == m.author
        local_day == DateOf(AsTimezone(m.created_at, offset))
        key == <<uid, local_day>>
    IN  IF m.bot THEN <<c, a, seen>>
        ELSE IF normalized_content = manual_weekly_command THEN <<c, a, seen>>
        ELSE IF normalized_content = manual_monthly_command THEN <<c, a, seen>>
        ELSE IF normalized_content = manual_reminder_command(reminder) THEN <<c, a, seen>>
        ELSE IF ~is_update_message(m.content) THEN <<c, a, seen>>
        ELSE IF local_day < start \/ local_day > end THEN <<c, a, seen>>
        ELSE IF dedup /\ key \in seen THEN <<c, a, seen>>
        ELSE <<[u \in DOMAIN c \cup {uid} |->
                    IF u = uid THEN (IF u \in DOMAIN c THEN c[u] ELSE 0) + 1 ELSE c[u]],
               [u \in DOMAIN a \cup {uid} |->
                    IF u = uid THEN (IF u \in DOMAIN a THEN a[u] ELSE {}) \cup {local_day}
                    ELSE a[u]],
               IF dedup THEN seen \cup {key} ELSE seen>>

\* The body of the async for of collect_counts_for_period on one message:
\* <<counts, active_days, seen_daily>> after it.
LoopBody(m, c, a, seen, start, end, offset, dedup, reminder) ==
    LET normalized_content == Normalize(m.content)
        uid == m.author
        local_day == DateOf(AsTimezone(m.created_at, offset))
        key == <<uid, local_day>>
    IN  IF m.bot THEN <<c, a, seen>>
        ELSE IF normalized_content = manual_weekly_command THEN <<c, a, seen>>
        ELSE IF normalized_content = manual_monthly_command THEN <<c, a, seen>>
        ELSE IF normalized_content = manual_reminder_command(reminder) THEN <<c, a, seen>>
        ELSE IF ~is_update_message(m.content) THEN <<c, a, seen>>
        ELSE IF uid \notin DOMAIN c THEN <<c, a, seen>>
        ELSE IF local_day < start \/ local_day > end THEN <<c, a, seen>>
        ELSE IF dedup /\ key \in seen THEN <<c, a, seen>>
        ELSE <<[c EXCEPT ![uid] = @ + 1],
               [a EXCEPT ![uid] = @ \cup {local_day}],
               IF dedup THEN seen \cup {key} ELSE seen>>

\* ------------------------------------------------------------- period report
\* str(n), the one-character cell "-", and f"<@{user_id}>"
PyStr(n) == <<"str", n>>
Dash == <<"-">>
Mention(user_id) == <<"<@", user_id, ">">>

\* sum(counts.values())
RECURSIVE SumOver(_, _)
SumOver(c, keys) ==
    IF keys = {} THEN 0
    ELSE LET k == CHOOSE x \in keys : TRUE IN c[k] + SumOver(c, keys \ {k})
SumValues(c) == SumOver(c, DOMAIN c)

\* Mutant: the list is sorted ascending and then reversed, which reverses ties.
RECURSIVE insert_by_count_reversed_ties(_, _, _)
insert_by_count_reversed_ties(ordered, uid, c) ==
    IF ordered = <<>> THEN <<uid>>
    ELSE IF c[Head(ordered)] > c[uid]
         THEN <<Head(ordered)>> \o insert_by_count_reversed_ties(Tail(ordered), uid, c)
         ELSE <<uid>> \o ordered

\* sorted(..., key=lambda uid: counts[uid], reverse=True) is a stable sort: one
\* more element goes after every element whose count is not smaller.
RECURSIVE insert_by_count(_, _, _)
insert_by_count(ordered, uid, c) ==
    IF ordered = <<>> THEN <<uid>>
    ELSE IF c[Head(ordered)] >= c[uid]
         THEN <<Head(ordered)>> \o insert_by_count(Tail(ordered), uid, c)
         ELSE <<uid>> \o ordered

RECURSIVE sorted_by_count(_, _, _)
sorted_by_count(ids, c, ordered) ==
    IF ids = <<>> THEN ordered
    ELSE sorted_by_count(Tail(ids), c, insert_by_count(ordered, Head(ids), c))

\* build_period_report: ordered_user_ids
ordered_user_ids(ids, c, rank) == IF rank THEN sorted_by_count(ids, c, <<>>) ELSE ids

\* Mutant: the window's length is taken to be end - start, one day short.
build_rows_short_period(ids, c, a, start, end, rank, include_missed) ==
    LET period_days == end - start
        ordered == ordered_user_ids(ids, c, rank)
    IN  [idx \in 1..Len(ordered) |->
            LET user_id == ordered[idx]
                active == Cardinality(a[user_id])
                missed == Max(period_days - active, 0)
            IN  <<PyStr(idx), Mention(user_id), PyStr(c[user_id]), PyStr(active),
                  IF include_missed THEN PyStr(missed) ELSE Dash>>]

\* build_period_report: the rows of the table, each a list of five cells
build_rows(ids, c, a, start, end, rank, include_missed) ==
    LET period_days == (end - start) + 1
        ordered == ordered_user_ids(ids, c, rank)
    IN  [idx \in 1..Len(ordered) |->
            LET user_id == ordered[idx]
                active == Cardinality(a[user_id])
                missed == Max(period_days - active, 0)
            IN  <<PyStr(idx), Mention(user_id), PyStr(c[user_id]), PyStr(active),
                  IF include_missed THEN PyStr(missed) ELSE Dash>>]

NoMsg == [author |-> 0, bot |-> FALSE, content |-> <<>>, created_at |-> 0]
NoCounts == <<>>

AggIdle ==
    /\ user_ids = <<>> /\ one_update_per_day = FALSE /\ utc_offset = 0
    /\ reminder_command = <<>> /\ period_start = 0 /\ period_end = 0 /\ agg_pc = "idle"
    /\ counts = NoCounts /\ active_days = NoCounts /\ seen_daily = {}
    /\ msg = NoMsg /\ yielded = FALSE /\ scanned = 0 /\ posted = {} /\ qualified = 0

\* ------------------------------------------------------------- the bot's parts
\* The three scheduler tasks and the slots in which on_message calls run.
Schedulers == {"daily", "weekly", "monthly"}
Handlers == {"on_message_1", "on_message_2"}
Procs == Schedulers \cup Handlers

\* A coroutine that is at `pc` and inside no reminder or report.
IdleProc(pc) ==
    [pc |-> pc, kind |-> "", reason |-> "", wake |-> 0, start |-> 0, end |-> 0, label |-> ""]

BotIdle ==
    /\ clock = 0 /\ tasks_started = FALSE /\ ready_signals = 0
    /\ created = <<>> /\ proc = <<>> /\ inbound = 0 /\ sent = <<>> /\ inbox = <<>>
    /\ fetch_failed = <<>>

ReportIdle ==
    /\ rank_report = FALSE /\ include_missed_days = FALSE /\ rows = <<>> /\ total_updates = 0

ConcIdle == stream = <<>> /\ runs = <<>>

\* ---------------------------------------------- the calculator, called alone
\* Every date of the years MinYear..MaxYear.
NowDates == MkDate(MinYear, 1, 1) .. MkDate(MaxYear, 12, 31)

\* The configured HH:MM times tried: midnight, the two defaults, the last minute.
TargetTimes == {HHMM(0, 0), HHMM(16, 0), HHMM(20, 0), HHMM(23, 59)}

\* Times of day tried for `call_now`: the ends of the day, noon, and the instants
\* around the target (one second before, one tick before, at, one tick after).
NowTimes(tt) ==
    {0, HHMM(12, 0), TicksPerDay - 1, tt - TicksPerSecond, tt - 1, tt, tt + 1}
        \cap (0 .. (TicksPerDay - 1))

Reasons == {"scheduled", "manual"}

NoPeriod == <<0, 0, "">>

CalcIdle ==
    /\ call_now = 0 /\ call_target = 0 /\ call_fn = "idle" /\ call_weekday = NoWeekday
    /\ call_reason = "" /\ call_candidate = 0 /\ call_wait = 0 /\ call_period = NoPeriod

InitCalc ==
    /\ call_target \in TargetTimes
    /\ call_now \in {Combine(d, t) : d \in NowDates, t \in NowTimes(call_target)}
    /\ call_fn = "input"
    /\ call_weekday = NoWeekday
    /\ call_reason = ""
    /\ call_candidate = 0
    /\ call_wait = 0
    /\ call_period = NoPeriod
    /\ AggIdle
    /\ ReportIdle
    /\ ConcIdle
    /\ BotIdle

\* daily_scheduler's call: seconds_until_next_run(daily_reminder_time, timezone)
CallDaily ==
    /\ call_fn = "input"
    /\ call_fn' = "seconds_until_next_run"
    /\ call_weekday' = NoWeekday
    /\ call_candidate' = next_run_candidate(call_target, call_now, NoWeekday)
    /\ call_wait' = seconds_until_next_run(call_target, call_now, NoWeekday)
    /\ UNCHANGED <<call_now, call_target, call_reason, call_period, aggVars, reportVars, concVars, botVars>>

\* weekly_scheduler's call: seconds_until_next_run(weekly_report_time, timezone, weekday=wd)
CallWeekly ==
    /\ call_fn = "input"
    /\ \E wd \in 0..6 :
        /\ call_weekday' = wd
        /\ call_candidate' = next_run_candidate(call_target, call_now, wd)
        /\ call_wait' = seconds_until_next_run(call_target, call_now, wd)
    /\ call_fn' = "seconds_until_next_run"
    /\ UNCHANGED <<call_now, call_target, call_reason, call_period, aggVars, reportVars, concVars, botVars>>

\* The wait computation of one iteration of monthly_scheduler.
CallMonthly ==
    /\ call_fn = "input"
    /\ call_fn' = "monthly_scheduler"
    /\ call_candidate' = monthly_candidate(call_target, call_now)
    /\ call_wait' = monthly_wait_seconds(call_target, call_now)
    /\ UNCHANGED <<call_now, call_target, call_weekday, call_reason, call_period, aggVars, reportVars, concVars, botVars>>

CallWeeklyPeriod ==
    /\ call_fn = "input"
    /\ call_fn' = "weekly_period"
    /\ \E r \in Reasons :
        /\ call_reason' = r
        /\ call_period' = <<weekly_period(call_now, r)[1], weekly_period(call_now, r)[2], "">>
    /\ UNCHANGED <<call_now, call_target, call_weekday, call_candidate, call_wait, aggVars, reportVars, concVars, botVars>>

CallMonthlyPeriod ==
    /\ call_fn = "input"
    /\ call_fn' = "monthly_period"
    /\ \E r \in Reasons :
        /\ call_reason' = r
        /\ call_period' = monthly_period(call_now, r)
    /\ UNCHANGED <<call_now, call_target, call_weekday, call_candidate, call_wait, aggVars, reportVars, concVars, botVars>>

NextCalc ==
    \/ CallDaily
    \/ CallWeekly
    \/ CallMonthly
    \/ CallWeeklyPeriod
    \/ CallMonthlyPeriod

SpecCalc == InitCalc /\ [][NextCalc]_vars

\* ----------------------------------------------- claims on the calculator
CallToday == DateOf(call_now)
CallLanding == call_now + call_wait
DailyCalled == call_fn = "seconds_until_next_run" /\ call_weekday = NoWeekday
WeeklyCalled == call_fn = "seconds_until_next_run" /\ call_weekday # NoWeekday

\* The first instant strictly after `t` whose wall-clock time is `tt`.
NextOccurrence(tt, t) ==
    IF Combine(DateOf(t), tt) > t THEN Combine(DateOf(t), tt) ELSE Combine(DateOf(t) + 1, tt)

\* C5 as stated: without a weekday the wait is >= 1 second and now + wait lands
\* exactly on the target wall-clock time of the same or the next calendar day,
\* strictly after now; now equal to the target rolls to the next day's target.
C5_AsStated ==
    DailyCalled =>
        /\ call_wait >= TicksPerSecond
        /\ CallLanding > call_now
        /\ TimeOf(CallLanding) = call_target
        /\ DateOf(CallLanding) \in {CallToday, CallToday + 1}
        /\ (TimeOf(call_now) = call_target => CallLanding = Combine(CallToday + 1, call_target))

\* C5 amended: the wait is >= 1 second and now + wait is strictly after now, at
\* or less than one second after the first target instant strictly after now
\* (same or next calendar day); it lands exactly on that instant whenever the
\* instant is at least one second away, and otherwise the wait is exactly one
\* second; now equal to the target rolls to the next day's target.
C5_DailyWait ==
    DailyCalled =>
        LET tgt == NextOccurrence(call_target, call_now)
        IN  /\ call_wait >= TicksPerSecond
            /\ CallLanding > call_now
            /\ DateOf(tgt) \in {CallToday, CallToday + 1}
            /\ DateOf(CallLanding) \in {CallToday, CallToday + 1}
            /\ (tgt - call_now >= TicksPerSecond =>
                    CallLanding = tgt /\ TimeOf(CallLanding) = call_target)
            /\ (tgt - call_now < TicksPerSecond =>
                    call_wait = TicksPerSecond /\ CallLanding > tgt /\ CallLanding - tgt < TicksPerSecond)
            /\ (TimeOf(call_now) = call_target => CallLanding = Combine(CallToday + 1, call_target))

\* C5 witness: a call made one tick (less than a second) before the target is
\* answered one second, which lands past the target.
C5_Witness ==
    /\ DailyCalled
    /\ NextOccurrence(call_target, call_now) - call_now = 1
    /\ call_wait = TicksPerSecond
    /\ TimeOf(CallLanding) # call_target

\* C6: with a weekday, the target instant falls on that weekday at the target
\* time, is strictly after now and at most 7 days ahead, and so does now + wait;
\* when today is the target weekday and the target time has passed or equals
\* now, the target is exactly 7 days after today's target time.
C6_WeeklyWait ==
    WeeklyCalled =>
        /\ PyWeekday(DateOf(call_candidate)) = call_weekday
        /\ TimeOf(call_candidate) = call_target
        /\ call_candidate > call_now
        /\ call_candidate - call_now <= Days(7)
        /\ call_wait >= TicksPerSecond
        /\ call_wait <= Days(7)
        /\ CallLanding >= call_candidate
        /\ CallLanding - call_candidate < TicksPerSecond
        /\ PyWeekday(DateOf(CallLanding)) = call_weekday
        /\ ((PyWeekday(CallToday) = call_weekday /\ Combine(CallToday, call_target) <= call_now)
                => call_candidate = Combine(CallToday, call_target) + Days(7))

\* C6 witness: on a Sunday, at the target time exactly, the weekly scheduler's
\* call (weekday 6) has answered 7 days.
C6_Witness ==
    /\ WeeklyCalled
    /\ call_weekday = 6
    /\ PyWeekday(CallToday) = 6
    /\ TimeOf(call_now) = call_target
    /\ call_wait = Days(7)

\* The calendar month after month m of year y.
NextMonthYear(y, m) == IF m = 12 THEN y + 1 ELSE y
NextMonth(m) == IF m = 12 THEN 1 ELSE m + 1
PrevMonthYear(y, m) == IF m = 1 THEN y - 1 ELSE y
PrevMonth(m) == IF m = 1 THEN 12 ELSE m - 1

\* C7: the monthly scheduler's target is day 1 of the calendar month right after
\* the current month, at the configured time, and the wait is >= 1 second (and
\* ends at the target, or less than a second after it).
C7_MonthlyTarget ==
    call_fn = "monthly_scheduler" =>
        LET y == YearOf(CallToday)
            m == MonthOf(CallToday)
        IN  /\ call_candidate = Combine(MkDate(NextMonthYear(y, m), NextMonth(m), 1), call_target)
            /\ DayOf(DateOf(call_candidate)) = 1
            /\ call_wait >= TicksPerSecond
            /\ CallLanding >= call_candidate
            /\ CallLanding - call_candidate < TicksPerSecond

\* C7 witness: on 31 December of a leap year the target is 1 January of the
\* next year.
C7_Witness ==
    /\ call_fn = "monthly_scheduler"
    /\ IsLeap(YearOf(CallToday))
    /\ MonthOf(CallToday) = 12 /\ DayOf(CallToday) = 31
    /\ YearOf(DateOf(call_candidate)) = YearOf(CallToday) + 1
    /\ MonthOf(DateOf(call_candidate)) = 1

\* C8: weekly_period ends today and starts on the most recent Sunday on or
\* before today: a Sunday gives start = end = today, any other day gives
\* end - start = the days back to that Sunday (1..6); the reason changes nothing.
C8_WeeklyPeriod ==
    call_fn = "weekly_period" =>
        LET start_date == call_period[1]
            end_date == call_period[2]
        IN  /\ end_date = CallToday
            /\ PyWeekday(start_date) = 6
            /\ end_date - start_date \in 0..6
            /\ (PyWeekday(CallToday) = 6 => start_date = end_date)
            /\ (PyWeekday(CallToday) # 6 => end_date - start_date = PyWeekday(CallToday) + 1)
            /\ \A r \in Reasons : weekly_period(call_now, r) = <<start_date, end_date>>

\* C8 witness: called on a Saturday, the window is 7 days long.
C8_Witness ==
    /\ call_fn = "weekly_period"
    /\ PyWeekday(CallToday) = 5
    /\ call_period[2] - call_period[1] = 6

\* C10: a scheduled monthly_period lies in the calendar month right before
\* now's month, from its day 1 to its last day, labelled "Previous calendar
\* month".
C10_MonthlyPeriodScheduled ==
    (call_fn = "monthly_period" /\ call_reason # "manual") =>
        LET y == YearOf(CallToday)
            m == MonthOf(CallToday)
            py == PrevMonthYear(y, m)
            pm == PrevMonth(m)
            start_date == call_period[1]
            end_date == call_period[2]
        IN  /\ YearOf(start_date) = py /\ MonthOf(start_date) = pm /\ DayOf(start_date) = 1
            /\ YearOf(end_date) = py /\ MonthOf(end_date) = pm
            /\ DayOf(end_date) = DaysInMonth(py, pm)
            /\ end_date + 1 = MkDate(y, m, 1)
            /\ call_period[3] = "Previous calendar month"

\* C10 witness: now = 2024-03-05 gives 2024-02-01 .. 2024-02-29.
C10_Witness ==
    /\ call_fn = "monthly_period"
    /\ call_reason = "scheduled"
    /\ CallToday = MkDate(2024, 3, 5)
    /\ call_period = <<MkDate(2024, 2, 1), MkDate(2024, 2, 29), "Previous calendar month">>

\* The two monthly windows of the day of the call: the one the call returned,
\* and the one monthly_period gives for the other reason at the same `now`.
ManualWindow ==
    IF call_reason = "manual" THEN call_period ELSE monthly_period(call_now, "manual")
ScheduledWindow ==
    IF call_reason = "manual" THEN monthly_period(call_now, "scheduled") ELSE call_period

\* C11: for every calendar date, the manual monthly window is [day 1 of the
\* current month, today], the scheduled one is the previous calendar month, and
\* the two are disjoint and adjacent: manual start = scheduled end + 1 day.
C11_ManualScheduledAdjacent ==
    call_fn = "monthly_period" =>
        LET y == YearOf(CallToday)
            m == MonthOf(CallToday)
            py == PrevMonthYear(y, m)
            pm == PrevMonth(m)
        IN  /\ ManualWindow[1] = MkDate(y, m, 1)
            /\ ManualWindow[2] = CallToday
            /\ ScheduledWindow[1] = MkDate(py, pm, 1)
            /\ ScheduledWindow[2] = MkDate(py, pm, DaysInMonth(py, pm))
            /\ ManualWindow[1] = ScheduledWindow[2] + 1
            /\ (ScheduledWindow[1] .. ScheduledWindow[2]) \cap (ManualWindow[1] .. ManualWindow[2]) = {}

\* C11 witness: a manual call on 1 January of MaxYear returns the one-day
\* window of that day, and the scheduled window of the same day is December of
\* the year before.
C11_Witness ==
    /\ call_fn = "monthly_period"
    /\ call_reason = "manual"
    /\ CallToday = MkDate(MaxYear, 1, 1)
    /\ call_period[1] = CallToday /\ call_period[2] = CallToday
    /\ ScheduledWindow[1] = MkDate(MaxYear - 1, 12, 1)
    /\ ScheduledWindow[2] = MkDate(MaxYear - 1, 12, 31)

\* ------------------------------------------ the aggregator, run on a channel
Hours(n) == n * TicksPerHour

\* The configured zones tried: UTC+2 (Africa/Cairo, the default) and UTC-5.
UtcOffsets == {Hours(2), 0 - Hours(5)}

\* The tracked user lists tried.
UserIdLists == {<<1, 2>>}

\* The manual-reminder command tried: one that the update pattern matches too,
\* so that the command exclusion decides on its own.
ReminderCommands == {<<"!", "Update">>}

\* The window's first day: a Sunday in March of MaxYear.
WindowStart == MkDate(MaxYear, 3, 3)

\* Authors of channel messages: the tracked users, an untracked user, and a bot
\* account carrying a tracked id.
Authors == {[id |-> 1, bot |-> FALSE], [id |-> 2, bot |-> FALSE],
            [id |-> 3, bot |-> FALSE], [id |-> 1, bot |-> TRUE]}

Contents ==
    { <<" ", "Daily", " ", "Updates">>,
      <<"random">>,
      <<" ", "!", "Weekly_Report", " ">>,
      <<"!", "monthly_report">>,
      <<"!", "update", " ">> }

\* Wall-clock instants (in the configured zone) of channel messages: around the
\* window's two ends and inside it.
LocalTimes(start, end) ==
    { Combine(start, 0) - TicksPerSecond,
      Combine(start, 0) - 1,
      Combine(start, 0),
      Combine(start, HHMM(12, 0)),
      Combine(end, TicksPerDay - TicksPerSecond),
      Combine(end, TicksPerDay - 1),
      Combine(end + 1, 0) }

ChannelMessages(start, end, offset) ==
    { [author |-> au.id, bot |-> au.bot, content |-> c, created_at |-> ToUtc(t, offset)] :
        au \in Authors, c \in Contents, t \in LocalTimes(start, end) }

\* What the claims call a qualifying message: not from a bot, not a command,
\* matching the update pattern, from a tracked user.
IsCommand(m) ==
    Normalize(m.content) \in
        {Normalize(weekly_report_command), Normalize(monthly_report_command),
         Normalize(reminder_command)}
Excluded(m) ==
    \/ m.bot
    \/ IsCommand(m)
    \/ ~is_update_message(m.content)
    \/ m.author \notin Range(user_ids)
LocalInstant(m) == m.created_at + utc_offset
LocalDay(m) == DateOf(LocalInstant(m))
\* Whether m's timestamp, in the zone, reads between start 00:00:00 and end 23:59:59.
InWindow(m) ==
    /\ LocalInstant(m) >= Combine(period_start, 0)
    /\ LocalInstant(m) \div TicksPerSecond
            <= Combine(period_end, HHMM(23, 59) + 59 * TicksPerSecond) \div TicksPerSecond

InitAgg ==
    /\ user_ids \in UserIdLists
    /\ one_update_per_day \in BOOLEAN
    /\ utc_offset \in UtcOffsets
    /\ reminder_command \in ReminderCommands
    /\ period_start = WindowStart
    /\ period_end \in period_start .. (period_start + MaxWindowSpan)
    /\ agg_pc = "scanning"
    /\ counts = [uid \in Range(user_ids) |-> 0]
    /\ active_days = [uid \in Range(user_ids) |-> {}]
    /\ seen_daily = {}
    /\ msg = NoMsg
    /\ yielded = FALSE
    /\ scanned = 0
    /\ posted = {}
    /\ qualified = 0
    /\ CalcIdle
    /\ ReportIdle
    /\ ConcIdle
    /\ BotIdle

\* The history query passes over one more message of the channel: it either
\* filters it out or yields it to the loop body.
HistoryNext ==
    /\ agg_pc = "scanning"
    /\ scanned < MaxScan
    /\ \E m \in ChannelMessages(period_start, period_end, utc_offset) :
        LET after == history_after(period_start, utc_offset)
            before == history_before(period_end, utc_offset)
            out == LoopBody(m, counts, active_days, seen_daily, period_start, period_end,
                            utc_offset, one_update_per_day, reminder_command)
        IN  /\ msg' = m
            /\ yielded' = HistoryYields(m, after, before)
            /\ IF HistoryYields(m, after, before)
               THEN /\ counts' = out[1]
                    /\ active_days' = out[2]
                    /\ seen_daily' = out[3]
               ELSE UNCHANGED <<counts, active_days, seen_daily>>
            /\ posted' = IF ~Excluded(m) /\ InWindow(m)
                         THEN posted \cup {<<m.author, LocalDay(m)>>}
                         ELSE posted
            /\ qualified' = IF ~Excluded(m) /\ InWindow(m) THEN qualified + 1 ELSE qualified
    /\ scanned' = scanned + 1
    /\ UNCHANGED <<user_ids, one_update_per_day, utc_offset, reminder_command,
                   period_start, period_end, agg_pc, calcVars, reportVars, concVars, botVars>>

\* The history is exhausted: return counts, active_days.
HistoryEnd ==
    /\ agg_pc = "scanning"
    /\ agg_pc' = "returned"
    /\ UNCHANGED <<user_ids, one_update_per_day, utc_offset, reminder_command,
                   period_start, period_end, counts, active_days, seen_daily, msg,
                   yielded, scanned, posted, qualified, calcVars, reportVars, concVars, botVars>>

\* send_weekly_report / send_monthly_report hand what the scan returned to
\* build_period_report, under the configured rank_report and include_missed_days.
BuildReport ==
    /\ agg_pc = "returned"
    /\ agg_pc' = "reported"
    /\ \E rank \in BOOLEAN, include_missed \in BOOLEAN :
        /\ rank_report' = rank
        /\ include_missed_days' = include_missed
        /\ rows' = build_rows(user_ids, counts, active_days, period_start, period_end,
                              rank, include_missed)
    /\ total_updates' = SumValues(counts)
    /\ UNCHANGED <<user_ids, one_update_per_day, utc_offset, reminder_command,
                   period_start, period_end, counts, active_days, seen_daily, msg,
                   yielded, scanned, posted, qualified, calcVars, concVars, botVars>>

NextAgg ==
    \/ HistoryNext
    \/ HistoryEnd
    \/ BuildReport

SpecAgg == InitAgg /\ [][NextAgg]_vars

\* ----------------------------------------------- claims on the aggregator
\* The step in which the history query passes over one more message.
Scanning == scanned' = scanned + 1
Counted == counts' # counts
\* The message's author gained one count and its local day became an active day.
CountedFor(m) ==
    /\ m.author \in DOMAIN counts
    /\ counts' = [counts EXCEPT ![m.author] = @ + 1]
    /\ active_days' = [active_days EXCEPT ![m.author] = @ \cup {LocalDay(m)}]
FirstOfItsDay(m) == <<m.author, LocalDay(m)>> \notin posted

\* C2: a message from a bot, or whose trimmed lower-cased text equals one of the
\* three commands, or whose text does not match the update pattern, or whose
\* author is not tracked, changes no count and no active-day set.
C2_Exclusion ==
    [][(Scanning /\ Excluded(msg')) => (counts' = counts /\ active_days' = active_days)]_vars

\* C2 witness: a tracked user's in-window message " !update " , which matches the
\* update pattern and normalizes to the manual-reminder command, was yielded and
\* left the counts at zero.
C2_Witness ==
    /\ scanned = 1
    /\ yielded
    /\ ~msg.bot
    /\ msg.author \in Range(user_ids)
    /\ is_update_message(msg.content)
    /\ msg.content # Normalize(msg.content)
    /\ Normalize(msg.content) = Normalize(reminder_command)
    /\ InWindow(msg)
    /\ \A uid \in DOMAIN counts : counts[uid] = 0 /\ active_days[uid] = {}

\* The distinct local days of the window on which uid posted a qualifying message.
DaysPosted(uid) == {p[2] : p \in {q \in posted : q[1] = uid}}

\* C3: with one_update_per_day, every count is at most the number of distinct
\* local days on which the user posted a qualifying message in the window, and a
\* count is incremented only by the first qualifying message of a (user, day).
C3_Dedup ==
    /\ [](one_update_per_day =>
            \A uid \in DOMAIN counts : counts[uid] <= Cardinality(DaysPosted(uid)))
    /\ [][(one_update_per_day /\ Scanning /\ Counted) =>
            (FirstOfItsDay(msg') /\ CountedFor(msg'))]_vars

\* C3 witness: two qualifying messages of one user on one day, one count.
C3_Witness ==
    /\ one_update_per_day
    /\ qualified = 2
    /\ Cardinality(posted) = 1
    /\ \E uid \in DOMAIN counts : counts[uid] = 1 /\ DaysPosted(uid) # {}
    /\ \A uid \in DOMAIN counts : counts[uid] <= 1

\* C4: a qualifying message (the first of its user and day when
\* one_update_per_day is on) is counted if and only if its timestamp, in the
\* configured zone, reads between start 00:00:00 and end 23:59:59, whatever the
\* order of the stream; every active day lies within [start, end].
C4_Window ==
    /\ [][Scanning =>
            /\ Counted <=> (/\ ~Excluded(msg')
                            /\ InWindow(msg')
                            /\ (one_update_per_day => FirstOfItsDay(msg')))
            /\ Counted => CountedFor(msg')]_vars
    /\ [](\A uid \in DOMAIN active_days : \A d \in active_days[uid] :
            period_start <= d /\ d <= period_end)

\* C4 witness: after a message at 00:00:00 of the day after the end day was
\* yielded and not counted, a message in the last second of the end day is
\* counted.
C4_Witness ==
    /\ scanned = 2
    /\ yielded
    /\ qualified = 1
    /\ ~Excluded(msg)
    /\ LocalDay(msg) = period_end
    /\ TimeOf(LocalInstant(msg)) >= HHMM(23, 59) + 59 * TicksPerSecond
    /\ counts[msg.author] = 1
    /\ active_days[msg.author] = {period_end}

\* C21: at every point of a scan, of the empty stream too, counts and
\* active_days have exactly the tracked user ids as keys; every count is at
\* least 0 and at least the size of the user's active-day set; with
\* one_update_per_day every count equals the size of the user's active-day set.
C21_KeysAndSizes ==
    /\ DOMAIN counts = Range(user_ids)
    /\ DOMAIN active_days = Range(user_ids)
    /\ \A uid \in Range(user_ids) :
        /\ counts[uid] >= 0
        /\ counts[uid] >= Cardinality(active_days[uid])
        /\ one_update_per_day => counts[uid] = Cardinality(active_days[uid])

\* C21 witness: without one_update_per_day, after a tracked user's update was
\* counted, an untracked user's update inside the window is yielded to the
\* loop: the keys are still the tracked ids and the counts are unchanged.
C21_Witness ==
    /\ ~one_update_per_day
    /\ scanned = 2
    /\ qualified = 1
    /\ yielded
    /\ ~msg.bot /\ ~IsCommand(msg) /\ is_update_message(msg.content) /\ InWindow(msg)
    /\ msg.author \notin Range(user_ids)
    /\ DOMAIN counts = Range(user_ids)
    /\ \E uid \in Range(user_ids) : counts[uid] = 1 /\ Cardinality(active_days[uid]) = 1

\* ------------------------------------------------------------ parse_user_ids
\* A USER_IDS value is a sequence of tokens: "," , " " (a run of white space)
\* and runs of digits. int() of the runs of digits tried:
IntOf(tok) == CASE tok = "1" -> 1 [] tok = "2" -> 2 [] tok = "3" -> 3
DigitRuns == {"1", "2", "3"}

\* value.split(","): the items between the commas, <<>> items included
RECURSIVE SplitComma(_, _)
SplitComma(value, item) ==
    IF value = <<>> THEN <<item>>
    ELSE IF Head(value) = "," THEN <<item>> \o SplitComma(Tail(value), <<>>)
    ELSE SplitComma(Tail(value), Append(item, Head(value)))

\* What stands for the ValueError parse_user_ids and parse_int raise: the empty
\* list, which parse_user_ids never returns.
ValueError == <<>>

\* parse_int: int(value.strip()); 0 stands for the ValueError, no id tried is 0
parse_int(value) ==
    LET stripped == Strip(value)
    IN  IF Len(stripped) = 1 /\ stripped[1] \in DigitRuns THEN IntOf(stripped[1]) ELSE 0

\* parse_user_ids: the items that are not blank, stripped, each through parse_int
parse_user_ids(value) ==
    LET items == SplitComma(value, <<>>)
        ids == SelectSeq([i \in 1..Len(items) |-> Strip(items[i])], LAMBDA item : item # <<>>)
        parsed == [i \in 1..Len(ids) |-> parse_int(ids[i])]
    IN  IF ids = <<>> THEN ValueError
        ELSE IF \E i \in 1..Len(parsed) : parsed[i] = 0 THEN ValueError
        ELSE parsed

\* The USER_IDS values tried: in id order; out of id order, with blanks and an
\* empty item; one id repeated; nothing but blanks; an item that is no integer.
UserIdsValues ==
    { <<"1", ",", "2", ",", "3">>,
      <<" ", "2", ",", "3", " ", ",", ",", "1">>,
      <<"2", ",", "1", ",", "2">>,
      <<" ", ",", " ">>,
      <<"1", ",", "2", " ", "3">> }

\* ------------------------------------- build_period_report, called on its own
\* The tracked-user lists tried: what parse_user_ids returns for the values
\* it accepts.
ReportUserLists == {parse_user_ids(value) : value \in UserIdsValues} \ {ValueError}

\* What collect_counts_for_period can return for a scan of at most MaxScan
\* counted messages: every count is at least the number of active days, and
\* equal to it under one_update_per_day; every active day lies in the window.
InitReport ==
    /\ user_ids \in ReportUserLists
    /\ one_update_per_day \in BOOLEAN
    /\ utc_offset = Hours(2)
    /\ reminder_command \in ReminderCommands
    /\ period_start = WindowStart
    /\ period_end \in period_start .. (period_start + MaxWindowSpan)
    /\ agg_pc = "returned"
    /\ counts \in [Range(user_ids) -> 0..MaxScan]
    /\ SumValues(counts) <= MaxScan
    /\ active_days \in [Range(user_ids) -> SUBSET (period_start .. period_end)]
    /\ \A uid \in Range(user_ids) :
        /\ Cardinality(active_days[uid]) <= counts[uid]
        /\ counts[uid] > 0 => active_days[uid] # {}
        /\ one_update_per_day => Cardinality(active_days[uid]) = counts[uid]
    /\ seen_daily = IF one_update_per_day
                    THEN UNION {{<<uid, d>> : d \in active_days[uid]} : uid \in Range(user_ids)}
                    ELSE {}
    /\ msg = NoMsg
    /\ yielded = FALSE
    /\ scanned = SumValues(counts)
    /\ posted = UNION {{<<uid, d>> : d \in active_days[uid]} : uid \in Range(user_ids)}
    /\ qualified = SumValues(counts)
    /\ ReportIdle
    /\ CalcIdle
    /\ ConcIdle
    /\ BotIdle

NextReport == BuildReport

SpecReport == InitReport /\ [][NextReport]_vars

\* ------------------------------------------------------ claims on the report
Reported == agg_pc = "reported"
\* The user, the rank and the Updates cell of table row i.
RowUser(i) == rows[i][2][2]
RowRank(i) == rows[i][1]
RowUpdates(i) == rows[i][3]

\* The ways of matching the rows one to one with the positions of user_ids.
RowOrigins ==
    {f \in [1..Len(rows) -> 1..Len(user_ids)] :
        /\ \A i, j \in 1..Len(rows) : i # j => f[i] # f[j]
        /\ \A i \in 1..Len(rows) : RowUser(i) = user_ids[f[i]]}

\* C12: there is one row per entry of the configured list; the ranks are 1..n
\* in row order; with rank_report off the rows are in configured order; with
\* rank_report on the counts never increase down the rows and rows with equal
\* counts stand in the order their users have in the configured list.
C12_Ranking ==
    Reported =>
        /\ Len(rows) = Len(user_ids)
        /\ \A i \in 1..Len(rows) : RowRank(i) = PyStr(i) /\ RowUpdates(i) = PyStr(counts[RowUser(i)])
        /\ ~rank_report => \A i \in 1..Len(rows) : RowUser(i) = user_ids[i]
        /\ rank_report =>
            /\ \A i, j \in 1..Len(rows) : i < j => counts[RowUser(i)] >= counts[RowUser(j)]
            /\ \E f \in RowOrigins :
                \A i, j \in 1..Len(rows) :
                    (i < j /\ counts[RowUser(i)] = counts[RowUser(j)]) => f[i] < f[j]

\* C12 witness: the list 2, 3, 1 with counts 0, 1, 1 is ranked 3, 1, 2: user 2
\* goes last, and the tied users 3 and 1 keep their configured order.
C12_Witness ==
    /\ Reported
    /\ rank_report
    /\ user_ids = <<2, 3, 1>>
    /\ counts[2] = 0 /\ counts[3] = 1 /\ counts[1] = 1
    /\ <<RowUser(1), RowUser(2), RowUser(3)>> = <<3, 1, 2>>

\* The Active Days and Missed Days cells of table row i.
RowActive(i) == rows[i][4]
RowMissed(i) == rows[i][5]
\* The days of the window on which uid posted no qualifying message.
DaysMissed(uid) == (period_start .. period_end) \ DaysPosted(uid)

\* C16: in every row the Active Days cell is the size of the user's active-day
\* set, which is the number of distinct local days of the window on which the
\* user posted a qualifying update; with include_missed_days the Missed Days
\* cell is (end - start + 1) minus that number, floored at 0, which is the
\* number of days of the window without a qualifying update of the user;
\* without include_missed_days the cell is "-".
C16_ActiveAndMissed ==
    Reported =>
        \A i \in 1..Len(rows) :
            LET uid == RowUser(i)
                active == Cardinality(active_days[uid])
                period_days == (period_end - period_start) + 1
            IN  /\ RowActive(i) = PyStr(active)
                /\ active = Cardinality(DaysPosted(uid))
                /\ include_missed_days =>
                    /\ RowMissed(i) = PyStr(Max(period_days - active, 0))
                    /\ RowMissed(i) = PyStr(Cardinality(DaysMissed(uid)))
                /\ ~include_missed_days => RowMissed(i) = Dash

\* C16 witness: over a two-day window one user posted on one day and the
\* other on none: the Missed Days cells read 1 and 2.
C16_Witness ==
    /\ Reported
    /\ include_missed_days
    /\ period_end = period_start + 1
    /\ \E i, j \in 1..Len(rows) :
        /\ RowActive(i) = PyStr(1) /\ RowMissed(i) = PyStr(1)
        /\ RowActive(j) = PyStr(0) /\ RowMissed(j) = PyStr(2)

\* The number in the Updates cell of row i, and the sum of the first n of them.
UpdatesCell(i) == rows[i][3][2]
RECURSIVE SumUpdatesCells(_)
SumUpdatesCells(n) == IF n = 0 THEN 0 ELSE UpdatesCell(n) + SumUpdatesCells(n - 1)
\* The rows of the table that show user uid.
RowsOf(uid) == {i \in 1..Len(rows) : RowUser(i) = uid}

\* C22 as stated: in every report, whatever list parse_user_ids returned, each
\* tracked user id is in exactly one row of the table and the Total Updates
\* line is the sum of the Updates cells of all the rows.
C22_OneRowPerUser ==
    Reported =>
        /\ \A uid \in Range(user_ids) : Cardinality(RowsOf(uid)) = 1
        /\ total_updates = SumUpdatesCells(Len(rows))

\* What holds of every report: there is one row per entry of the list, a
\* user has as many rows as the list has entries for it, and the Total Updates
\* line counts each user once however many rows it has.
C22_OneRowPerEntry ==
    Reported =>
        /\ Len(rows) = Len(user_ids)
        /\ \A uid \in Range(user_ids) :
            Cardinality(RowsOf(uid)) = Cardinality({i \in 1..Len(user_ids) : user_ids[i] = uid})
        /\ total_updates = SumValues(counts)
        /\ (\A i, j \in 1..Len(user_ids) : i # j => user_ids[i] # user_ids[j]) =>
                /\ \A uid \in Range(user_ids) : Cardinality(RowsOf(uid)) = 1
                /\ total_updates = SumUpdatesCells(Len(rows))

\* The report of the list 2, 1, 2 with one update of user 2: user 2 has two
\* rows, the Updates cells add up to 2 and the Total Updates line reads 1.
C22_RepeatedIdReport ==
    /\ Reported
    /\ user_ids = <<2, 1, 2>>
    /\ counts[2] = 1 /\ counts[1] = 0
    /\ Cardinality(RowsOf(2)) = 2
    /\ SumUpdatesCells(Len(rows)) = 2
    /\ total_updates = 1

\* ------------------------------------------- two report runs at the same time
\* A scheduled weekly report and a manually triggered one run on the same day
\* over the same channel: each awaits every message of its own history query,
\* so the two scans interleave message by message.
RunIds == {"scheduled", "manual"}

\* The channel's messages: from the two tracked users, an update or not, inside
\* the window or on the day after it.
StreamMessages(start, end, offset) ==
    { [author |-> a, bot |-> FALSE, content |-> c, created_at |-> ToUtc(t, offset)] :
        a \in {1, 2},
        c \in {<<" ", "Daily", " ", "Updates">>, <<"random">>},
        t \in {Combine(start, HHMM(12, 0)), Combine(end + 1, 0)} }

\* All lists of at most n elements of S.
RECURSIVE SeqsUpTo(_, _)
SeqsUpTo(S, n) ==
    IF n = 0 THEN {<<>>}
    ELSE LET shorter == SeqsUpTo(S, n - 1)
         IN  shorter \cup {Append(q, x) : q \in shorter, x \in S}

\* A run that has not entered collect_counts_for_period yet.
NoRun == [pc |-> "idle", pos |-> 0, counts |-> <<>>, active_days |-> <<>>,
          seen_daily |-> {}, sends |-> 0]

InitConc ==
    /\ user_ids \in UserIdLists
    /\ one_update_per_day \in BOOLEAN
    /\ utc_offset = Hours(2)
    /\ reminder_command \in ReminderCommands
    /\ period_start = WindowStart
    /\ period_end \in period_start .. (period_start + MaxWindowSpan)
    /\ agg_pc = "idle"
    /\ counts = NoCounts /\ active_days = NoCounts /\ seen_daily = {}
    /\ msg = NoMsg /\ yielded = FALSE /\ scanned = 0 /\ posted = {} /\ qualified = 0
    /\ stream \in SeqsUpTo(StreamMessages(period_start, period_end, utc_offset), MaxScan)
    /\ runs = [r \in RunIds |-> NoRun]
    /\ ReportIdle
    /\ CalcIdle
    /\ BotIdle

\* Mutant: seen_daily is kept on the bot object, one set for all the runs.
seen_daily_shared(rs, r) == UNION {rs[q].seen_daily : q \in DOMAIN rs}

\* seen_daily is a local of collect_counts_for_period: each run reads its own.
seen_daily_of(rs, r) == rs[r].seen_daily

\* Run r enters collect_counts_for_period: fresh counts, active_days, seen_daily.
RunEnter(r) ==
    /\ runs[r].pc = "idle"
    /\ runs' = [runs EXCEPT ![r] =
                    [pc |-> "scanning", pos |-> 0,
                     counts |-> [uid \in Range(user_ids) |-> 0],
                     active_days |-> [uid \in Range(user_ids) |-> {}],
                     seen_daily |-> {}, sends |-> 0]]
    /\ UNCHANGED <<stream, calcVars, aggVars, reportVars, botVars>>

\* Run r's history query passes over the next message of the channel.
RunNext(r) ==
    /\ runs[r].pc = "scanning"
    /\ runs[r].pos < Len(stream)
    /\ LET m == stream[runs[r].pos + 1]
           out == LoopBody(m, runs[r].counts, runs[r].active_days, seen_daily_of(runs, r),
                           period_start, period_end, utc_offset, one_update_per_day,
                           reminder_command)
       IN  runs' = [runs EXCEPT ![r] =
                IF HistoryYields(m, history_after(period_start, utc_offset),
                                 history_before(period_end, utc_offset))
                THEN [@ EXCEPT !.pos = @ + 1, !.counts = out[1], !.active_days = out[2],
                               !.seen_daily = out[3]]
                ELSE [@ EXCEPT !.pos = @ + 1]]
    /\ UNCHANGED <<stream, calcVars, aggVars, reportVars, botVars>>

\* Run r's history is exhausted: the report is built and channel.send awaited.
RunEnd(r) ==
    /\ runs[r].pc = "scanning"
    /\ runs[r].pos = Len(stream)
    /\ runs' = [runs EXCEPT ![r].pc = "send"]
    /\ UNCHANGED <<stream, calcVars, aggVars, reportVars, botVars>>

\* Run r's channel.send(report) delivers the report.
RunSend(r) ==
    /\ runs[r].pc = "send"
    /\ runs' = [runs EXCEPT ![r].pc = "done", ![r].sends = @ + 1]
    /\ UNCHANGED <<stream, calcVars, aggVars, reportVars, botVars>>

NextConc ==
    \/ \E r \in RunIds : RunEnter(r)
    \/ \E r \in RunIds : RunNext(r)
    \/ \E r \in RunIds : RunEnd(r)
    \/ \E r \in RunIds : RunSend(r)

SpecConc == InitConc /\ [][NextConc]_vars

\* ------------------------------------------- claims on the concurrent runs
\* What one run, alone, holds after the first n messages of the stream:
\* <<counts, active_days>>.
RECURSIVE Alone(_)
Alone(n) ==
    IF n = 0
    THEN <<[uid \in Range(user_ids) |-> 0], [uid \in Range(user_ids) |-> {}], {}>>
    ELSE LET before == Alone(n - 1)
             m == stream[n]
         IN  IF m.created_at > ToUtc(Combine(period_start, 0), utc_offset) - TicksPerSecond
                /\ m.created_at < ToUtc(Combine(period_end, TicksPerDay - 1), utc_offset) + TicksPerSecond
             THEN LoopBody(m, before[1], before[2], before[3], period_start, period_end,
                           utc_offset, one_update_per_day, reminder_command)
             ELSE before

\* C17: whatever the interleaving, each run holds at every point of its scan
\* the counts and active days it would hold alone after the same messages, so
\* two runs over the same stream and window return identical results; a run
\* sends once, when its scan is over, and never again.
C17_IndependentRuns ==
    /\ \A r \in RunIds :
        /\ runs[r].pc # "idle" =>
            /\ runs[r].counts = Alone(runs[r].pos)[1]
            /\ runs[r].active_days = Alone(runs[r].pos)[2]
        /\ runs[r].pc \in {"send", "done"} => runs[r].pos = Len(stream)
        /\ runs[r].sends = IF runs[r].pc = "done" THEN 1 ELSE 0
    /\ \A r, q \in RunIds :
        (runs[r].pc \in {"send", "done"} /\ runs[q].pc \in {"send", "done"}) =>
            (runs[r].counts = runs[q].counts /\ runs[r].active_days = runs[q].active_days)

\* C17 witness: with one_update_per_day on, both runs are in the middle of
\* their scans of a two-message stream and each has counted the first message.
C17_Witness ==
    /\ one_update_per_day
    /\ Len(stream) = 2
    /\ stream[1] = stream[2]
    /\ \A r \in RunIds :
        /\ runs[r].pc = "scanning"
        /\ runs[r].pos = 1
        /\ runs[r].counts[stream[1].author] = 1

\* -------------------------------------------------------------------- the bot
\* The coroutines run on one event loop: what a coroutine does between two of
\* its awaits is one step.
\* load_config's default times
daily_reminder_time == HHMM(16, 0)
weekly_report_time == HHMM(20, 0)
monthly_report_time == HHMM(20, 0)
default_reminder_command == <<"!", "daily_reminder">>

\* The bot is followed from noon of the last Sunday of March of MaxYear, for
\* MaxRunHours hours.
StartDate ==
    LET d == MkDate(MaxYear, 3, 31)
    IN  d - ((PyWeekday(d) + 1) % 7)
StartClock == Combine(StartDate, HHMM(12, 0))
Horizon == StartClock + Hours(MaxRunHours)

\* Inbound chat messages: from a person or a bot, in the target channel or not.
InboundContents ==
    { <<" ", "!", "Weekly_Report", " ">>,
      <<"!", "monthly_report">>,
      <<"!", "daily_reminder", " ">>,
      <<"daily", " ", "update">> }
InboundMessages ==
    [bot : BOOLEAN, in_target_channel : BOOLEAN, content : InboundContents]

\* No message yet.
NoInbound == [bot |-> FALSE, in_target_channel |-> FALSE, content |-> <<>>]

InitBot ==
    /\ clock = StartClock
    /\ tasks_started = FALSE
    /\ ready_signals = 0
    /\ created = [k \in Schedulers |-> 0]
    /\ proc = [p \in Procs |-> IdleProc(IF p \in Schedulers THEN "not_created" ELSE "free")]
    /\ inbound = 0
    /\ sent = [p \in Procs |-> <<>>]
    /\ inbox = [h \in Handlers |-> NoInbound]
    /\ fetch_failed = [p \in Procs |-> 0]
    /\ CalcIdle
    /\ AggIdle
    /\ ReportIdle
    /\ ConcIdle

\* Mutant: on_ready without the tasks_started guard.
on_ready_unguarded ==
    /\ ready_signals < MaxReady
    /\ ready_signals' = ready_signals + 1
    /\ tasks_started' = TRUE
    /\ created' = [k \in Schedulers |-> created[k] + 1]
    /\ proc' = [p \in Procs |-> IF p \in Schedulers THEN IdleProc("created") ELSE proc[p]]
    /\ UNCHANGED <<clock, inbound, sent, inbox, fetch_failed,
                   calcVars, aggVars, reportVars, concVars>>

\* on_ready: the first call creates the three scheduler tasks.
on_ready ==
    /\ ready_signals < MaxReady
    /\ ready_signals' = ready_signals + 1
    /\ IF tasks_started
       THEN UNCHANGED <<tasks_started, created, proc>>
       ELSE /\ tasks_started' = TRUE
            /\ created' = [k \in Schedulers |-> created[k] + 1]
            /\ proc' = [p \in Procs |-> IF p \in Schedulers THEN IdleProc("created") ELSE proc[p]]
    /\ UNCHANGED <<clock, inbound, sent, inbox, fetch_failed,
                   calcVars, aggVars, reportVars, concVars>>

\* The wait a scheduler computes at the top of its loop, the clock reading `now`.
SchedulerWaitSeconds(k, now) ==
    CASE k = "daily" -> seconds_until_next_run(daily_reminder_time, now, NoWeekday)
      [] k = "weekly" -> seconds_until_next_run(weekly_report_time, now, 6)
      [] k = "monthly" -> monthly_wait_seconds(monthly_report_time, now)

\* What a scheduler sends when it wakes.
SchedulerKind(k) ==
    CASE k = "daily" -> "reminder" [] k = "weekly" -> "weekly" [] k = "monthly" -> "monthly"

\* The top of a scheduler's loop: compute the wait, await asyncio.sleep.
Asleep(k) == [IdleProc("sleeping") EXCEPT !.wake = clock + SchedulerWaitSeconds(k, clock)]

\* The coroutine's reminder or report has returned: a scheduler loops and
\* sleeps, an on_message call is over.
Returned(p) == IF p \in Schedulers THEN Asleep(p) ELSE IdleProc("free")

\* An exception has left the coroutine: a scheduler task ends, an on_message
\* call is over.
Raised(p) == IdleProc(IF p \in Schedulers THEN "crashed" ELSE "free")

\* The window a report computes from `now`: <<start, end, label>>.
ReportPeriod(kind, now, reason) ==
    IF kind = "weekly"
    THEN <<weekly_period(now, reason)[1], weekly_period(now, reason)[2],
           "Week-to-date (Sunday-current day)">>
    ELSE monthly_period(now, reason)

\* With the channel in hand: a reminder awaits channel.send; a report reads the
\* clock, computes its window and awaits the history scan.
WithChannel(kind, reason) ==
    IF kind = "reminder"
    THEN [IdleProc("send") EXCEPT !.kind = kind, !.reason = reason]
    ELSE LET w == ReportPeriod(kind, clock, reason)
         IN  [pc |-> "history", kind |-> kind, reason |-> reason, wake |-> 0,
              start |-> w[1], end |-> w[2], label |-> w[3]]

\* send_daily_reminder / send_weekly_report / send_monthly_report is entered:
\* get_target_channel finds the channel in the cache, or awaits fetch_channel.
Entered(kind, reason, cached) ==
    IF cached
    THEN WithChannel(kind, reason)
    ELSE [IdleProc("fetch_channel") EXCEPT !.kind = kind, !.reason = reason]

\* A created scheduler task runs for the first time.
SchedulerStart(k) ==
    /\ proc[k].pc = "created"
    /\ proc' = [proc EXCEPT ![k] = Asleep(k)]
    /\ UNCHANGED <<clock, tasks_started, ready_signals, created, inbound, sent, inbox, fetch_failed,
                   calcVars, aggVars, reportVars, concVars>>

\* asyncio.sleep is over: the scheduler calls its reminder or report.
SchedulerWake(k) ==
    /\ proc[k].pc = "sleeping"
    /\ clock >= proc[k].wake
    /\ \E cached \in BOOLEAN :
        proc' = [proc EXCEPT ![k] = Entered(SchedulerKind(k), "scheduled", cached)]
    /\ UNCHANGED <<clock, tasks_started, ready_signals, created, inbound, sent, inbox, fetch_failed,
                   calcVars, aggVars, reportVars, concVars>>

\* fetch_channel returns the channel.
FetchDone(p) ==
    /\ proc[p].pc = "fetch_channel"
    /\ proc' = [proc EXCEPT ![p] = WithChannel(proc[p].kind, proc[p].reason)]
    /\ UNCHANGED <<clock, tasks_started, ready_signals, created, inbound, sent, inbox, fetch_failed,
                   calcVars, aggVars, reportVars, concVars>>

\* Mutant: get_target_channel lets the exception of fetch_channel through.
FetchFails_escapes(p) ==
    /\ proc[p].pc = "fetch_channel"
    /\ fetch_failed' = [fetch_failed EXCEPT ![p] = @ + 1]
    /\ proc' = [proc EXCEPT ![p] = Raised(p)]
    /\ UNCHANGED <<clock, tasks_started, ready_signals, created, inbound, sent, inbox,
                   calcVars, aggVars, reportVars, concVars>>

\* fetch_channel raises: get_target_channel logs, returns None and the reminder
\* or report returns at once.
FetchFails(p) ==
    /\ proc[p].pc = "fetch_channel"
    /\ fetch_failed' = [fetch_failed EXCEPT ![p] = @ + 1]
    /\ proc' = [proc EXCEPT ![p] = Returned(p)]
    /\ UNCHANGED <<clock, tasks_started, ready_signals, created, inbound, sent, inbox,
                   calcVars, aggVars, reportVars, concVars>>

\* collect_counts_for_period returns; the report text is built and sent.
HistoryDone(p) ==
    /\ proc[p].pc = "history"
    /\ proc' = [proc EXCEPT ![p].pc = "send"]
    /\ UNCHANGED <<clock, tasks_started, ready_signals, created, inbound, sent, inbox, fetch_failed,
                   calcVars, aggVars, reportVars, concVars>>

\* channel.history raises inside collect_counts_for_period.
HistoryFails(p) ==
    /\ proc[p].pc = "history"
    /\ proc' = [proc EXCEPT ![p] = Raised(p)]
    /\ UNCHANGED <<clock, tasks_started, ready_signals, created, inbound, sent, inbox, fetch_failed,
                   calcVars, aggVars, reportVars, concVars>>

\* Mutant: the schedulers sleep with a blocking sleep, which holds the event
\* loop: nothing is delivered while a scheduler is asleep.
SendDone_blocking_sleep(p) ==
    /\ proc[p].pc = "send"
    /\ \A q \in Schedulers \ {p} : proc[q].pc # "sleeping"
    /\ sent' = [sent EXCEPT ![p] =
                    Append(@, [kind |-> proc[p].kind, reason |-> proc[p].reason,
                               start |-> proc[p].start, end |-> proc[p].end,
                               label |-> proc[p].label, at |-> clock])]
    /\ proc' = [proc EXCEPT ![p] = Returned(p)]
    /\ UNCHANGED <<clock, tasks_started, ready_signals, created, inbound, inbox, fetch_failed,
                   calcVars, aggVars, reportVars, concVars>>

\* channel.send delivers the reminder or report.
SendDone(p) ==
    /\ proc[p].pc = "send"
    /\ sent' = [sent EXCEPT ![p] =
                    Append(@, [kind |-> proc[p].kind, reason |-> proc[p].reason,
                               start |-> proc[p].start, end |-> proc[p].end,
                               label |-> proc[p].label, at |-> clock])]
    /\ proc' = [proc EXCEPT ![p] = Returned(p)]
    /\ UNCHANGED <<clock, tasks_started, ready_signals, created, inbound, inbox, fetch_failed,
                   calcVars, aggVars, reportVars, concVars>>

\* channel.send raises.
SendFails(p) ==
    /\ proc[p].pc = "send"
    /\ proc' = [proc EXCEPT ![p] = Raised(p)]
    /\ UNCHANGED <<clock, tasks_started, ready_signals, created, inbound, sent, inbox, fetch_failed,
                   calcVars, aggVars, reportVars, concVars>>

\* Mutant: the channel of the message is not looked at.
CommandKind_any_channel(m) ==
    LET normalized_content == Normalize(m.content)
    IN  IF m.bot THEN ""
        ELSE IF normalized_content = manual_weekly_command THEN "weekly"
        ELSE IF normalized_content = manual_monthly_command THEN "monthly"
        ELSE IF normalized_content = manual_reminder_command(default_reminder_command) THEN "reminder"
        ELSE ""

\* What on_message starts for message m: "" (nothing), or the kind it sends.
CommandKind(m) ==
    LET normalized_content == Normalize(m.content)
    IN  IF m.bot THEN ""
        ELSE IF ~m.in_target_channel THEN ""
        ELSE IF normalized_content = manual_weekly_command THEN "weekly"
        ELSE IF normalized_content = manual_monthly_command THEN "monthly"
        ELSE IF normalized_content = manual_reminder_command(default_reminder_command) THEN "reminder"
        ELSE ""

\* on_message(message) is called in the free slot h.
on_message(h, message) ==
    /\ inbound < MaxInbound
    /\ proc[h].pc = "free"
    /\ (h = "on_message_1" \/ proc["on_message_1"].pc # "free")
    /\ inbound' = inbound + 1
    /\ \E cached \in BOOLEAN :
        proc' = [proc EXCEPT ![h] =
                    IF CommandKind(message) = ""
                    THEN IdleProc("free")
                    ELSE Entered(CommandKind(message),
                                 IF CommandKind(message) = "reminder" THEN "" ELSE "manual",
                                 cached)]
    /\ UNCHANGED <<clock, tasks_started, ready_signals, created, sent, fetch_failed,
                   calcVars, aggVars, reportVars, concVars>>

\* Time passes: to the next instant a sleeper waits for, or to the next midnight.
NextInstants ==
    {proc[p].wake : p \in {q \in Schedulers : proc[q].pc = "sleeping" /\ proc[q].wake > clock}}
        \cup {Combine(DateOf(clock) + 1, 0)}
TickTo(horizon) ==
    /\ \E t \in NextInstants : t <= horizon /\ clock' = t
    /\ UNCHANGED <<tasks_started, ready_signals, created, proc, inbound, sent, inbox, fetch_failed,
                   calcVars, aggVars, reportVars, concVars>>
Tick == TickTo(Horizon)

Next ==
    \/ on_ready
    \/ \E k \in Schedulers : SchedulerStart(k)
    \/ \E k \in Schedulers : SchedulerWake(k)
    \/ \E p \in Procs : FetchDone(p)
    \/ \E p \in Procs : FetchFails(p)
    \/ \E p \in Procs : HistoryDone(p)
    \/ \E p \in Procs : HistoryFails(p)
    \/ \E p \in Procs : SendDone(p)
    \/ \E p \in Procs : SendFails(p)
    \/ \E h \in Handlers, m \in InboundMessages : on_message(h, m) /\ UNCHANGED inbox
    \/ Tick

Spec == InitBot /\ [][Next]_vars

\* --------------------------------------- the scheduler tasks, over their cycles
\* The three scheduler tasks followed from the first on_ready, with no inbound
\* message, for MaxCycleHours hours.
CycleHorizon == StartClock + Hours(MaxCycleHours)

InitCycles ==
    /\ clock = StartClock
    /\ tasks_started = TRUE
    /\ ready_signals = 1
    /\ created = [k \in Schedulers |-> 1]
    /\ proc = [p \in Procs |-> IdleProc(IF p \in Schedulers THEN "created" ELSE "free")]
    /\ inbound = 0
    /\ sent = [p \in Procs |-> <<>>]
    /\ inbox = [h \in Handlers |-> NoInbound]
    /\ fetch_failed = [p \in Procs |-> 0]
    /\ CalcIdle
    /\ AggIdle
    /\ ReportIdle
    /\ ConcIdle

NextCycles ==
    \/ \E k \in Schedulers : SchedulerStart(k)
    \/ \E k \in Schedulers : SchedulerWake(k)
    \/ \E k \in Schedulers : FetchDone(k)
    \/ \E k \in Schedulers : FetchFails(k)
    \/ \E k \in Schedulers : HistoryDone(k)
    \/ \E k \in Schedulers : HistoryFails(k)
    \/ \E k \in Schedulers : SendDone(k)
    \/ \E k \in Schedulers : SendFails(k)
    \/ TickTo(CycleHorizon)

SpecCycles == InitCycles /\ [][NextCycles]_vars

\* ------------------------------------------ claims on the scheduler cycles
\* The configured time of scheduler k.
ConfiguredTime(k) ==
    CASE k = "daily" -> daily_reminder_time
      [] k = "weekly" -> weekly_report_time
      [] k = "monthly" -> monthly_report_time

\* Scheduler k is asleep until an instant that is strictly ahead, at its
\* configured time, on a day of its own kind (the same or the next day, the
\* next Sunday, day 1 of the next month).
WaitsForNextCycle(k) ==
    LET wake == proc'[k].wake
    IN  /\ proc'[k].pc = "sleeping"
        /\ wake > clock
        /\ TimeOf(wake) = ConfiguredTime(k)
        /\ k = "daily" => wake - clock <= Days(1)
        /\ k = "weekly" => PyWeekday(DateOf(wake)) = 6 /\ wake - clock <= Days(7)
        /\ k = "monthly" => DayOf(DateOf(wake)) = 1 /\ wake - clock <= Days(31)

\* C14: the step in which a scheduler's channel resolution fails (cache miss,
\* then fetch_channel raising) sends nothing, starts no history scan and ends
\* no task: the scheduler is asleep until its next cycle right after it; and a
\* sleeping scheduler whose wake time has come can always run its cycle.
C14_FetchFailure ==
    /\ [][\A k \in Schedulers :
            fetch_failed'[k] # fetch_failed[k] =>
                /\ proc[k].pc = "fetch_channel"
                /\ sent' = sent
                /\ proc'[k].pc \notin {"history", "send", "crashed"}
                /\ WaitsForNextCycle(k)]_vars
    /\ [](\A k \in Schedulers :
            (proc[k].pc = "sleeping" /\ clock >= proc[k].wake) => ENABLED SchedulerWake(k))

\* C14 witness: the daily scheduler's first cycle was abandoned for lack of a
\* channel, and its next cycle, a day later, sent the reminder.
C14_Witness ==
    /\ fetch_failed["daily"] = 1
    /\ Len(sent["daily"]) = 1
    /\ sent["daily"][1].at = Combine(StartDate + 1, daily_reminder_time)
    /\ proc["daily"].pc = "sleeping"

\* C15 as stated: a history scan or a send that fails during a cycle of a
\* scheduler task ends only that iteration: the task is then asleep until its
\* next scheduled instant, and no scheduler task ever ends.
C15_RetriedNextCycle ==
    /\ [][\A k \in Schedulers :
            (proc[k].pc \in {"history", "send"} /\ proc'[k].pc \notin {"history", "send"}) =>
                WaitsForNextCycle(k)]_vars
    /\ [](\A k \in Schedulers : proc[k].pc # "crashed")

\* The daily task goes from Waiting to Sending and from Sending back to
\* Waiting, and nowhere else.
C19_Alternates ==
    [][LET pc == proc["daily"].pc
           next_pc == proc'["daily"].pc
       IN  /\ pc = "sleeping" => next_pc \in {"sleeping", "fetch_channel", "send"}
           /\ pc = "fetch_channel" => next_pc \in {"fetch_channel", "send", "sleeping"}
           /\ pc = "send" => next_pc \in {"send", "sleeping"}]_vars

\* Every sleep of the daily task is computed from the clock read when the
\* previous reminder returned: it ends at the first target strictly after that
\* reading, on a later calendar day when the reading is at or after the
\* day's target; the task wakes no earlier, and a reminder is sent only by a
\* task that woke.
C19_Recomputes ==
    [][/\ (proc'["daily"].pc = "sleeping" /\ proc'["daily"] # proc["daily"]) =>
            /\ proc'["daily"].wake = NextOccurrence(daily_reminder_time, clock)
            /\ (TimeOf(clock) >= daily_reminder_time =>
                    DateOf(proc'["daily"].wake) = DateOf(clock) + 1)
       /\ (proc["daily"].pc = "sleeping" /\ proc'["daily"].pc # "sleeping") =>
            clock >= proc["daily"].wake
       /\ sent'["daily"] # sent["daily"] =>
            /\ proc["daily"].pc = "send"
            /\ proc'["daily"].pc = "sleeping"]_vars

\* C19 as stated: the daily task alternates Waiting -> Sending -> Waiting
\* forever, each wait recomputed from the clock read after the previous send.
C19_DailyAlternatesForever == C19_Alternates /\ C19_Recomputes

\* ------------------------------------------- the command handler, on its own
\* on_message calls and the platform calls they await, each slot keeping the
\* message it was last called with.
NextCmd ==
    \/ \E h \in Handlers, m \in InboundMessages :
            on_message(h, m) /\ inbox' = [inbox EXCEPT ![h] = m]
    \/ \E p \in Handlers : FetchDone(p)
    \/ \E p \in Handlers : FetchFails(p)
    \/ \E p \in Handlers : HistoryDone(p)
    \/ \E p \in Handlers : HistoryFails(p)
    \/ \E p \in Handlers : SendDone(p)
    \/ \E p \in Handlers : SendFails(p)

\* The days on which the handler is tried: the week that starts on StartDate,
\* which holds the last day of a month and day 1 of the next.
CmdDays == StartDate .. (StartDate + 6)

InitCmd ==
    /\ clock \in {Combine(d, HHMM(12, 0)) : d \in CmdDays}
    /\ tasks_started = FALSE
    /\ ready_signals = 0
    /\ created = [k \in Schedulers |-> 0]
    /\ proc = [p \in Procs |-> IdleProc(IF p \in Schedulers THEN "not_created" ELSE "free")]
    /\ inbound = 0
    /\ sent = [p \in Procs |-> <<>>]
    /\ inbox = [h \in Handlers |-> NoInbound]
    /\ fetch_failed = [p \in Procs |-> 0]
    /\ CalcIdle
    /\ AggIdle
    /\ ReportIdle
    /\ ConcIdle

SpecCmd == InitCmd /\ [][NextCmd]_vars

\* ------------------------------------------- claims on the command handler
\* The step is a call of on_message, made in the first free slot.
OnMessageStep == inbound' = inbound + 1
CalledSlot == IF proc["on_message_1"].pc = "free" THEN "on_message_1" ELSE "on_message_2"

\* The trimmed, lower-cased text of m.
Trimmed(m) == Lower(Strip(m.content))
Ignored(m) == m.bot \/ ~m.in_target_channel

\* C13: a call of on_message sends nothing itself; for a message from a bot or
\* from another channel it starts nothing; otherwise a text that, trimmed and
\* lower-cased, equals "!weekly_report" starts one weekly report with reason
\* manual, "!monthly_report" one monthly report with reason manual,
\* "!daily_reminder" one daily reminder, and any other text nothing.  What was
\* started keeps its kind and reason, only a report scans the history, and the
\* call ends with its first send: one message starts at most one action.
C13_CommandHandler ==
    /\ [][OnMessageStep =>
            LET h == CalledSlot
                m == inbox'[h]
                text == Trimmed(m)
                started == proc'[h]
            IN  /\ sent' = sent
                /\ \A q \in Procs \ {h} : proc'[q] = proc[q]
                /\ Ignored(m) => started.pc = "free"
                /\ (~Ignored(m) /\ text = <<"!", "weekly_report">>) =>
                        /\ started.kind = "weekly" /\ started.reason = "manual"
                        /\ started.pc \in {"fetch_channel", "history"}
                /\ (~Ignored(m) /\ text = <<"!", "monthly_report">>) =>
                        /\ started.kind = "monthly" /\ started.reason = "manual"
                        /\ started.pc \in {"fetch_channel", "history"}
                /\ (~Ignored(m) /\ text = <<"!", "daily_reminder">>) =>
                        /\ started.kind = "reminder"
                        /\ started.pc \in {"fetch_channel", "send"}
                /\ (~Ignored(m) /\ text \notin {<<"!", "weekly_report">>, <<"!", "monthly_report">>,
                                                 <<"!", "daily_reminder">>}) =>
                        started.pc = "free"]_vars
    /\ [][\A h \in Handlers :
            /\ (proc[h].pc # "free" /\ proc'[h].pc # "free") =>
                    (proc'[h].kind = proc[h].kind /\ proc'[h].reason = proc[h].reason)
            /\ proc'[h].pc = "history" => proc'[h].kind \in {"weekly", "monthly"}
            /\ sent'[h] # sent[h] =>
                    /\ proc[h].pc = "send" /\ proc'[h].pc = "free"
                    /\ Len(sent'[h]) = Len(sent[h]) + 1
                    /\ sent'[h][Len(sent'[h])].kind = proc[h].kind
                    /\ sent'[h][Len(sent'[h])].reason = proc[h].reason]_vars

\* C13 witness: called with " !Weekly_Report " from a person in the target
\* channel, the handler has sent one weekly report with reason manual and is
\* over.
C13_Witness ==
    /\ inbox["on_message_1"] =
            [bot |-> FALSE, in_target_channel |-> TRUE, content |-> <<" ", "!", "Weekly_Report", " ">>]
    /\ proc["on_message_1"].pc = "free"
    /\ Len(sent["on_message_1"]) = 1
    /\ sent["on_message_1"][1].kind = "weekly"
    /\ sent["on_message_1"][1].reason = "manual"

\* ------------------------------------------------------ claims on the bot
\* C1: whatever the number of ready signals, each scheduler task is created
\* exactly once: none before the first on_ready, all three (and tasks_started)
\* from the first on_ready on, and no later on_ready creates another.
C1_StartOnce ==
    /\ tasks_started <=> ready_signals >= 1
    /\ \A k \in Schedulers :
        /\ created[k] = IF ready_signals = 0 THEN 0 ELSE 1
        /\ proc[k].pc = "not_created" <=> ready_signals = 0

\* C1 witness: a second ready signal has come after the daily scheduler sent
\* its reminder, and each scheduler has still been created once.
C1_Witness ==
    /\ ready_signals = 2
    /\ Len(sent["daily"]) = 1
    /\ proc["daily"].pc = "sleeping"
    /\ \A k \in Schedulers : created[k] = 1

\* Every weekly report delivered so far, with the coroutine that sent it.
WeeklyReportsSent ==
    UNION {{<<p, sent[p][i]>> : i \in {j \in 1..Len(sent[p]) : sent[p][j].kind = "weekly"}} :
            p \in Procs}

\* C9 as stated: every weekly report sent, the weekly scheduler's included,
\* covers a window that starts on a Sunday and ends on the Saturday six days
\* later.
C9_SundayToSaturday ==
    \A x \in WeeklyReportsSent :
        /\ PyWeekday(x[2].start) = 6
        /\ PyWeekday(x[2].end) = 5
        /\ x[2].end = x[2].start + 6

MonthlyProcs == {"monthly"} \cup Handlers

NextMonthly ==
    \/ SchedulerStart("monthly")
    \/ SchedulerWake("monthly")
    \/ \E p \in MonthlyProcs : FetchDone(p)
    \/ \E p \in MonthlyProcs : FetchFails(p)
    \/ \E p \in MonthlyProcs : HistoryDone(p)
    \/ \E p \in MonthlyProcs : HistoryFails(p)
    \/ \E p \in MonthlyProcs : SendDone(p)
    \/ \E p \in MonthlyProcs : SendFails(p)
    \/ \E h \in Handlers, m \in InboundMessages : on_message(h, m) /\ UNCHANGED inbox
    \/ TickTo(CycleHorizon)

SpecMonthly == InitCycles /\ [][NextMonthly]_vars

\* Coroutine p reads the clock for a monthly report in this step.
ReadsClockForMonthly(p) ==
    /\ proc[p].pc # "history"
    /\ proc'[p].pc = "history"
    /\ proc'[p].kind = "monthly"

\* C20: the monthly scheduler wakes only on day 1 of a month, at the configured
\* time or later; the report it then starts, reading the clock in month M,
\* covers month M-1 from its day 1 to its last day; a monthly report started
\* by on_message reads the clock the same way and covers day 1 of month M up to
\* today; what is sent carries the window computed at that reading.
C20_ScheduledVsManual ==
    [][/\ (proc["monthly"].pc = "sleeping" /\ proc'["monthly"].pc # "sleeping") =>
            /\ DayOf(DateOf(proc["monthly"].wake)) = 1
            /\ TimeOf(proc["monthly"].wake) = monthly_report_time
            /\ clock >= proc["monthly"].wake
       /\ \A p \in MonthlyProcs :
            /\ ReadsClockForMonthly(p) =>
                LET today == DateOf(clock)
                    y == YearOf(today)
                    m == MonthOf(today)
                    py == PrevMonthYear(y, m)
                    pm == PrevMonth(m)
                IN  IF p = "monthly"
                    THEN /\ proc'[p].reason = "scheduled"
                         /\ proc'[p].start = MkDate(py, pm, 1)
                         /\ proc'[p].end = MkDate(py, pm, DaysInMonth(py, pm))
                         /\ proc'[p].end + 1 = MkDate(y, m, 1)
                    ELSE /\ proc'[p].reason = "manual"
                         /\ proc'[p].start = MkDate(y, m, 1)
                         /\ proc'[p].end = today
            /\ sent'[p] # sent[p] =>
                /\ sent'[p][Len(sent'[p])].start = proc[p].start
                /\ sent'[p][Len(sent'[p])].end = proc[p].end
                /\ sent'[p][Len(sent'[p])].reason = proc[p].reason]_vars

\* C20 witness: on 1 April of MaxYear the monthly scheduler has sent the report
\* of 1 to 31 March, and on_message a manual monthly report of 1 April alone.
C20_Witness ==
    /\ Len(sent["monthly"]) = 1
    /\ sent["monthly"][1].at = Combine(MkDate(MaxYear, 4, 1), monthly_report_time)
    /\ sent["monthly"][1].start = MkDate(MaxYear, 3, 1)
    /\ sent["monthly"][1].end = MkDate(MaxYear, 3, 31)
    /\ Len(sent["on_message_1"]) = 1
    /\ sent["on_message_1"][1].kind = "monthly"
    /\ sent["on_message_1"][1].reason = "manual"
    /\ DateOf(sent["on_message_1"][1].at) = MkDate(MaxYear, 4, 1)
    /\ sent["on_message_1"][1].start = MkDate(MaxYear, 4, 1)
    /\ sent["on_message_1"][1].end = MkDate(MaxYear, 4, 1)

====
